---- MODULE Spec2Model ----
(***************************************************************************)
(* A model of the test orchestration module of @kitiumai/test-core         *)
(* (src/src/orchestration/index.ts): the suite registry, dependency        *)
(* resolution, sharding, filtering, and one orchestrate call with its      *)
(* semaphore-bounded task pool.                                            *)
(*                                                                         *)
(* Optional JavaScript values (undefined or a value) are records           *)
(* [has, v]: has = FALSE stands for undefined.                             *)
(***************************************************************************)
EXTENDS Integers, Sequences, FiniteSets, TLC

VARIABLES
    suites,       \* TestOrchestrator.suites: Map<string, TestSuite>
    firstDef,     \* observation: the definition first registered under each name
    lastRegister, \* observation: what the last registerSuite call did
    resolveArgs,  \* argument of a direct resolveDependencies call
    resolveRet,   \* its outcome
    shardArgs,    \* arguments of a direct createShards call
    shardRet,     \* its outcome
    suiteNames,   \* orchestrate: argument suiteNames
    options,      \* orchestrate: argument options
    pc,           \* orchestrate: position of the async function
    tasks,        \* orchestrate: the dispatched (suite, file) tasks, in testPromises order
    permits,      \* Semaphore.permits
    waiting,      \* Semaphore.waiting (FIFO of task indices whose closure is queued)
    microq,       \* pending .then callbacks of resolved acquire() promises, FIFO
    result,       \* orchestrate: the OrchestrationResult under construction
    callArgs,     \* argument and options of a series of orchestrate calls
    callRet,      \* the tasks each call of the series dispatched
    filterArgs,   \* arguments of a direct filterTests call
    filterRet,    \* what it returned, and what it returns for its own output
    quarantinedTests, \* TestQuarantine.quarantinedTests (set of test ids)
    quarantineArgs,   \* arguments of a quarantineTests call
    quarantineDone,   \* whether the call has been made
    plArgs,       \* parallelLimit: arguments items (as their count) and limit
    plPc,         \* parallelLimit: position of the async function
    operations,   \* parallelLimit: state of operation(item) for each item started
    promises,     \* parallelLimit: state of the executeWithCleanup promise of each item started
    executing,    \* parallelLimit: the array executing (item indices)
    plResults,    \* parallelLimit: the array results (item indices)
    awaited,      \* parallelLimit: the Promise.race / Promise.all being awaited
    jobs          \* parallelLimit: the promise job (microtask) queue

vars == <<suites, firstDef, lastRegister, resolveArgs, resolveRet, shardArgs,
          shardRet, suiteNames, options, pc, tasks, permits, waiting, microq, result,
          callArgs, callRet,
          filterArgs, filterRet,
          quarantinedTests, quarantineArgs, quarantineDone,
          plArgs, plPc, operations, promises, executing, plResults, awaited, jobs>>

regObsVars == <<firstDef, lastRegister>>
resolveVars == <<resolveArgs, resolveRet>>
shardVars == <<shardArgs, shardRet>>
orchVars == <<suiteNames, options, pc, tasks, permits, waiting, microq, result>>
callVars == <<callArgs, callRet>>
filterVars == <<filterArgs, filterRet>>
quarantineVars == <<quarantinedTests, quarantineArgs, quarantineDone>>
parallelVars == <<plArgs, plPc, operations, promises, executing, plResults, awaited, jobs>>

----------------------------------------------------------------------------
(* Bounds of the model *)

MaxDeps == 2         \* dependencies listed by one suite (resolution runs)
MaxRequested == 2    \* names requested from resolveDependencies
MaxShardFiles == 5   \* length of the file list given to createShards
MaxShards == 3       \* shardCount given to createShards
MaxConcurrency == 2  \* options.concurrency of an orchestrate call
MaxShardCount == 2   \* options.shardCount / shardIndex of an orchestrate call
MaxFilterSuites == 2 \* suites in the list given to filterTests
MaxResults == 3      \* results in the batch given to quarantineTests
MaxThreshold == 2    \* failureThreshold given to quarantineTests
MaxItems == 3        \* items given to parallelLimit
MaxLimit == 2        \* limit given to parallelLimit

Names == {"A", "B", "C"}

----------------------------------------------------------------------------
(* Generic helpers *)

NoneSeq == [has |-> FALSE, v |-> <<>>]
NoneInt == [has |-> FALSE, v |-> 0]
Some(x) == [has |-> TRUE, v |-> x]

Range(s) == {s[i] : i \in DOMAIN s}

SeqsUpTo(S, n) == UNION {[1..k -> S] : k \in 0..n}

DistinctSeqsUpTo(S, n) ==
    {s \in SeqsUpTo(S, n) : \A i, j \in DOMAIN s : i # j => s[i] # s[j]}

\* Body applied to the value of v, v being evaluated once
With(v, Body(_)) == CHOOSE r \in {Body(x) : x \in {v}} : TRUE

\* flattening a sequence of sequences (forEach push(...), flatMap)
RECURSIVE Flatten(_)
Flatten(ss) == IF ss = <<>> THEN <<>> ELSE Head(ss) \o Flatten(Tail(ss))

\* number of positions of s that satisfy p
CountIf(s, p(_)) == Cardinality({i \in DOMAIN s : p(s[i])})

----------------------------------------------------------------------------
(* TestOrchestrator.resolveDependencies *)

Suite(name, files, deps, tags) ==
    [name |-> name, files |-> files, dependencies |-> deps, tags |-> tags]

\* suite?.dependencies, an absent suite or an absent list giving nothing to visit
dependenciesOf(reg, name) ==
    IF name \in DOMAIN reg /\ reg[name].dependencies.has
    THEN reg[name].dependencies.v
    ELSE <<>>

NoThrow == [has |-> FALSE, v |-> ""]

\* The closure visit: st = [visited, visiting, order, thrown]; a thrown error
\* unwinds every enclosing call without further effect.
RECURSIVE visit(_, _, _)
RECURSIVE visitEach(_, _, _)

\* mutant: an in-progress node is treated like a finished one
visitSilentOnRevisit(reg, name, st) ==
    IF st.thrown.has THEN st
    ELSE IF name \in st.visited \/ name \in st.visiting THEN st
    ELSE LET entered == [st EXCEPT !.visiting = @ \cup {name}]
             after == visitEach(reg, dependenciesOf(reg, name), entered)
         IN IF after.thrown.has THEN after
            ELSE [after EXCEPT !.visiting = @ \ {name},
                               !.visited = @ \cup {name},
                               !.order = Append(@, name)]

\* mutant: the node is emitted before its dependencies (pre-order)
visitPreOrder(reg, name, st) ==
    IF st.thrown.has THEN st
    ELSE IF name \in st.visited THEN st
    ELSE IF name \in st.visiting THEN [st EXCEPT !.thrown = Some(name)]
    ELSE LET entered == [st EXCEPT !.visiting = @ \cup {name},
                                   !.order = Append(@, name)]
             after == visitEach(reg, dependenciesOf(reg, name), entered)
         IN IF after.thrown.has THEN after
            ELSE [after EXCEPT !.visiting = @ \ {name},
                               !.visited = @ \cup {name}]

\* mutant: a name without a registered suite is not emitted
visitSkipsUnregistered(reg, name, st) ==
    IF st.thrown.has THEN st
    ELSE IF name \in st.visited THEN st
    ELSE IF name \in st.visiting THEN [st EXCEPT !.thrown = Some(name)]
    ELSE LET entered == [st EXCEPT !.visiting = @ \cup {name}]
             after == visitEach(reg, dependenciesOf(reg, name), entered)
         IN IF after.thrown.has THEN after
            ELSE [after EXCEPT !.visiting = @ \ {name},
                               !.visited = @ \cup {name},
                               !.order = IF name \in DOMAIN reg THEN Append(@, name)
                                         ELSE @]

visit(reg, name, st) ==
    IF st.thrown.has THEN st
    ELSE IF name \in st.visited THEN st
    ELSE IF name \in st.visiting THEN [st EXCEPT !.thrown = Some(name)]
    ELSE LET entered == [st EXCEPT !.visiting = @ \cup {name}]
             after == visitEach(reg, dependenciesOf(reg, name), entered)
         IN IF after.thrown.has THEN after
            ELSE [after EXCEPT !.visiting = @ \ {name},
                               !.visited = @ \cup {name},
                               !.order = Append(@, name)]

visitEach(reg, names, st) ==
    IF names = <<>> THEN st
    ELSE visitEach(reg, Tail(names), visit(reg, Head(names), st))

\* [threw, error, order]: the returned order, or the name in the thrown
\* "Circular dependency detected: <name>"
resolveDependencies(reg, requested) ==
    LET start == [visited |-> {}, visiting |-> {}, order |-> <<>>, thrown |-> NoThrow]
        final == visitEach(reg, requested, start)
    IN [threw |-> final.thrown.has,
        error |-> final.thrown.v,
        order |-> IF final.thrown.has THEN <<>> ELSE final.order]

----------------------------------------------------------------------------
(* TestOrchestrator.createShards *)

\* mutant: the shard index is taken modulo one more than the number of shards,
\* so some positions fall on a shard that does not exist
shardIndexPastEnd(index, shardCount) == index % (shardCount + 1)

\* mutant: the round-robin starts one shard too far
shardIndexShifted(index, shardCount) == (index + 1) % shardCount

\* const shardIndex = index % shardCount (only evaluated here for shardCount >= 1)
shardIndexOf(index, shardCount) == index % shardCount

\* files.forEach((file, index) => shards[index % shardCount]?.files.push(file)),
\* index being the 0-based position; a missing shard swallows the push
RECURSIVE distribute(_, _, _, _)
distribute(files, index, shardCount, shards) ==
    IF index >= Len(files) THEN shards
    ELSE LET slot == shardIndexOf(index, shardCount) + 1
         IN distribute(files, index + 1, shardCount,
                IF slot \in DOMAIN shards
                THEN [shards EXCEPT ![slot].files = Append(@, files[index + 1])]
                ELSE shards)

\* The shards as a sequence: shards[k + 1] is the shard of index k. The env
\* strings of a shard repeat index and total and are left out. A shardCount
\* below 1 runs neither loop body that could create or fill a shard.
createShards(files, shardCount) ==
    IF shardCount < 1 THEN <<>>
    ELSE distribute(files, 0, shardCount,
            [k \in 1..shardCount |-> [index |-> k - 1, total |-> shardCount, files |-> <<>>]])

----------------------------------------------------------------------------
(* TestOrchestrator.registerSuite, getSuite *)

\* this.suites.set(suite.name, suite)
registerSuite(reg, suite) ==
    [n \in DOMAIN reg \cup {suite.name} |-> IF n = suite.name THEN suite ELSE reg[n]]

\* this.suites.get(name)
getSuite(reg, name) ==
    IF name \in DOMAIN reg THEN Some(reg[name]) ELSE [has |-> FALSE, v |-> <<>>]

EmptyRegistry == [n \in {} |-> <<>>]

----------------------------------------------------------------------------
(* matchesPattern and TestOrchestrator.filterTests *)

\* The characters of the file names and patterns the model uses (TLC cannot
\* index a string).
Chars(str) ==
    CASE str = "a1" -> <<"a", "1">>
      [] str = "a2" -> <<"a", "2">>
      [] str = "b1" -> <<"b", "1">>
      [] str = "a" -> <<"a">>
      [] str = "1" -> <<"1">>
      [] str = "a*" -> <<"a", "*">>
      [] str = "*1" -> <<"*", "1">>
      [] str = "b*" -> <<"b", "*">>
      [] str = "a.*" -> <<"a", ".", "*">>
      [] str = "s" -> <<"s">>
      [] str = "f" -> <<"f">>
      [] str = "n" -> <<"n">>
      [] str = "s:f" -> <<"s", ":", "f">>
      [] str = "f:f" -> <<"f", ":", "f">>
      [] str = "" -> <<>>

\* String.prototype.includes
includes(text, sub) ==
    \E i \in 0..(Len(text) - Len(sub)) : SubSeq(text, i + 1, i + Len(sub)) = sub

\* pattern.replace(/\*/g, '.*')
RECURSIVE replaceStars(_)
replaceStars(cs) ==
    IF cs = <<>> THEN <<>>
    ELSE (IF Head(cs) = "*" THEN <<".", "*">> ELSE <<Head(cs)>>) \o replaceStars(Tail(cs))

\* new RegExp(source) over the characters the patterns use: "." is any
\* character, ".*" any run of characters, every other character itself
RECURSIVE regexTokens(_)
regexTokens(cs) ==
    IF cs = <<>> THEN <<>>
    ELSE IF Head(cs) = "." /\ Len(cs) >= 2 /\ cs[2] = "*"
         THEN <<[kind |-> "anyrun", c |-> ""]>> \o regexTokens(SubSeq(cs, 3, Len(cs)))
    ELSE IF Head(cs) = "."
         THEN <<[kind |-> "anychar", c |-> ""]>> \o regexTokens(Tail(cs))
    ELSE <<[kind |-> "literal", c |-> Head(cs)]>> \o regexTokens(Tail(cs))

RECURSIVE matchHere(_, _)
matchHere(tokens, text) ==
    IF tokens = <<>> THEN TRUE
    ELSE LET t == Head(tokens)
         IN CASE t.kind = "anyrun" ->
                    \E k \in 0..Len(text) :
                        matchHere(Tail(tokens), SubSeq(text, k + 1, Len(text)))
              [] t.kind = "anychar" ->
                    text # <<>> /\ matchHere(Tail(tokens), Tail(text))
              [] t.kind = "literal" ->
                    text # <<>> /\ Head(text) = t.c /\ matchHere(Tail(tokens), Tail(text))

\* RegExp.prototype.test, unanchored
regexTest(tokens, text) ==
    \E s \in 0..Len(text) : matchHere(tokens, SubSeq(text, s + 1, Len(text)))

matchesPattern(file, pattern) ==
    IF "*" \in Range(Chars(pattern))
    THEN regexTest(regexTokens(replaceStars(Chars(pattern))), Chars(file))
    ELSE includes(Chars(file), Chars(pattern))

\* The first .filter callback. An array is truthy also when empty: only
\* undefined skips a criterion.
keepSuite(suite, opts) ==
    /\ ~(/\ opts.tags.has /\ suite.tags.has
         /\ ~\E i \in DOMAIN opts.tags.v : opts.tags.v[i] \in Range(suite.tags.v))
    /\ ~(/\ opts.excludeTags.has /\ suite.tags.has
         /\ \E i \in DOMAIN opts.excludeTags.v :
                opts.excludeTags.v[i] \in Range(suite.tags.v))

\* mutant: a file matching an include pattern is kept whatever exclude says
keepFileIncludeWins(file, opts) ==
    IF opts.include.has
    THEN \E i \in DOMAIN opts.include.v : matchesPattern(file, opts.include.v[i])
    ELSE ~(/\ opts.exclude.has
           /\ \E i \in DOMAIN opts.exclude.v : matchesPattern(file, opts.exclude.v[i]))

\* the callback of suite.files.filter
keepFile(file, opts) ==
    /\ ~(/\ opts.include.has
         /\ ~\E i \in DOMAIN opts.include.v : matchesPattern(file, opts.include.v[i]))
    /\ ~(/\ opts.exclude.has
         /\ \E i \in DOMAIN opts.exclude.v : matchesPattern(file, opts.exclude.v[i]))

\* mutant: the first file of a suite is dropped unexamined
narrowFilesSkippingFirst(suite, opts) ==
    LET keep(file) == keepFile(file, opts)
    IN [suite EXCEPT !.files = SelectSeq(IF @ = <<>> THEN @ ELSE Tail(@), keep)]

\* the .map callback: {...suite, files: suite.files.filter(...)}
narrowFiles(suite, opts) ==
    LET keep(file) == keepFile(file, opts)
    IN [suite EXCEPT !.files = SelectSeq(@, keep)]

\* the suites the first .filter keeps
tagStage(suiteSeq, opts) ==
    LET keep(suite) == keepSuite(suite, opts)
    IN SelectSeq(suiteSeq, keep)

filterTests(suiteSeq, opts) ==
    LET tagged == tagStage(suiteSeq, opts)
        narrowed == [i \in DOMAIN tagged |-> narrowFiles(tagged[i], opts)]
        nonEmpty(suite) == Len(suite.files) > 0
    IN SelectSeq(narrowed, nonEmpty)

----------------------------------------------------------------------------
(* Semaphore *)

\* mutant: a permit is handed out while the count is still 0
acquireAtZero(sem, task) ==
    IF sem.permits >= 0
    THEN [permits |-> sem.permits - 1, waiting |-> sem.waiting, granted |-> <<task>>]
    ELSE [permits |-> sem.permits, waiting |-> Append(sem.waiting, task),
          granted |-> <<>>]

\* Semaphore.acquire, called for `task`: the executor either takes a permit and
\* resolves at once (granted = <<task>>) or queues the closure that will.
acquire(sem, task) ==
    IF sem.permits > 0
    THEN [permits |-> sem.permits - 1, waiting |-> sem.waiting, granted |-> <<task>>]
    ELSE [permits |-> sem.permits, waiting |-> Append(sem.waiting, task),
          granted |-> <<>>]

\* mutant: release returns the permit without waking a queued closure
releaseWithoutWake(sem) ==
    [permits |-> sem.permits + 1, waiting |-> sem.waiting, granted |-> <<>>]

\* mutant: release wakes the newest queued closure (waiting.pop())
releaseNewestFirst(sem) ==
    IF Len(sem.waiting) > 0
    THEN [permits |-> (sem.permits + 1) - 1,
          waiting |-> SubSeq(sem.waiting, 1, Len(sem.waiting) - 1),
          granted |-> <<sem.waiting[Len(sem.waiting)]>>]
    ELSE [permits |-> sem.permits + 1, waiting |-> sem.waiting, granted |-> <<>>]

\* Semaphore.release: the permit comes back and the oldest queued closure, if
\* any, runs at once, taking it again and resolving its acquire().
release(sem) ==
    IF Len(sem.waiting) > 0
    THEN [permits |-> (sem.permits + 1) - 1, waiting |-> Tail(sem.waiting),
          granted |-> <<Head(sem.waiting)>>]
    ELSE [permits |-> sem.permits + 1, waiting |-> sem.waiting, granted |-> <<>>]

----------------------------------------------------------------------------
(* TestOrchestrator.orchestrate *)

DefaultConcurrency == 4
DefaultShardCount == 4

\* the destructuring defaults
concurrencyOf(opts) == IF opts.concurrency.has THEN opts.concurrency.v ELSE DefaultConcurrency
shardingOf(opts) == IF opts.sharding.has THEN opts.sharding.v ELSE FALSE
shardCountOf(opts) == IF opts.shardCount.has THEN opts.shardCount.v ELSE DefaultShardCount
continueOnErrorOf(opts) == IF opts.continueOnError.has THEN opts.continueOnError.v ELSE TRUE
enableCacheOf(opts) == IF opts.enableCache.has THEN opts.enableCache.v ELSE FALSE

NoSharding == [has |-> FALSE, v |-> [shardIndex |-> 0, totalShards |-> 0, shardFiles |-> <<>>]]
NoCacheStats == [has |-> FALSE, v |-> [hits |-> 0, misses |-> 0, savedTime |-> 0]]

\* const result: OrchestrationResult = {...} (durations and timestamps left out)
EmptyResult ==
    [success |-> FALSE,
     results |-> <<>>,
     summary |-> [total |-> 0, passed |-> 0, failed |-> 0, skipped |-> 0],
     sharding |-> NoSharding,
     errors |-> <<>>,
     cacheStats |-> NoCacheStats]

\* the messages pushed to result.errors
CycleError(name) == [kind |-> "Circular dependency detected", suite |-> name, file |-> "", count |-> 0]
TaskError(suite, file) == [kind |-> "runner threw", suite |-> suite, file |-> file, count |-> 0]
AbortError(n) == [kind |-> "Test orchestration failed", suite |-> "", file |-> "", count |-> n]

\* shards[index], undefined outside the array
shardAt(shards, index) ==
    IF index + 1 \in DOMAIN shards
    THEN Some(shards[index + 1])
    ELSE [has |-> FALSE, v |-> [index |-> 0, total |-> 0, files |-> <<>>]]

\* orderedSuites.map((name) => this.suites.get(name)).filter(defined)
lookupSuites(reg, order) ==
    LET registered(name) == name \in DOMAIN reg
        known == SelectSeq(order, registered)
    IN [i \in DOMAIN known |-> reg[known[i]]]

\* if (sharding) {...}: the working file list and result.sharding
workingFiles(flat, opts) ==
    LET shards == createShards(flat, shardCountOf(opts))
        targetShard == IF opts.shardIndex.has
                       THEN shardAt(shards, opts.shardIndex.v)
                       ELSE shardAt(shards, 0)
    IN IF shardingOf(opts) /\ targetShard.has
       THEN [allFiles |-> targetShard.v.files,
             sharding |-> Some([shardIndex |-> targetShard.v.index,
                                totalShards |-> targetShard.v.total,
                                shardFiles |-> targetShard.v.files])]
       ELSE [allFiles |-> flat, sharding |-> NoSharding]

\* the (suite, file) pairs the dispatch loop does not skip, in loop order
pairs(filteredSuites, allFiles) ==
    LET inWorkingSet(file) == file \in Range(allFiles)
        pairsOf(suite) ==
            LET kept == SelectSeq(suite.files, inWorkingSet)
            IN [j \in DOMAIN kept |-> [suite |-> suite.name, file |-> kept[j]]]
    IN Flatten([i \in DOMAIN filteredSuites |-> pairsOf(filteredSuites[i])])

\* The synchronous part of the try block up to the dispatch loop: the thrown
\* cycle error, or the working file list, result.sharding and the pairs to
\* dispatch.
plan(reg, names, opts) ==
    LET fromFiltered(filteredSuites) ==
            LET fromWorking(w) ==
                    [threw |-> FALSE, error |-> "", allFiles |-> w.allFiles,
                     sharding |-> w.sharding,
                     pairs |-> pairs(filteredSuites, w.allFiles)]
                flat == Flatten([i \in DOMAIN filteredSuites |-> filteredSuites[i].files])
            IN With(workingFiles(flat, opts), fromWorking)
        fromResolved(resolved) ==
            IF resolved.threw
            THEN [threw |-> TRUE, error |-> resolved.error, allFiles |-> <<>>,
                  sharding |-> NoSharding, pairs |-> <<>>]
            ELSE With(filterTests(lookupSuites(reg, resolved.order), opts), fromFiltered)
    IN With(resolveDependencies(reg, names), fromResolved)

\* The dispatch loop's semaphore.acquire() calls for tasks i..n, all made
\* before the first await: sem = [permits, waiting, microq].
RECURSIVE dispatch(_, _, _)
dispatch(sem, n, i) ==
    IF i > n THEN sem
    ELSE LET after(got) ==
                 dispatch([permits |-> got.permits, waiting |-> got.waiting,
                           microq |-> sem.microq \o got.granted], n, i + 1)
         IN With(acquire([permits |-> sem.permits, waiting |-> sem.waiting], i), after)

\* mutant: the caught error is dropped instead of recorded
catchSwallow(res, error) == res

\* catch (error) { result.errors.push(...) }
catch(res, error) == [res EXCEPT !.errors = Append(@, error)]

\* what a settled task adds to successfulResults
fulfilledValue(task) == IF task.st = "fulfilled" THEN task.value ELSE <<>>

\* mutant: the settlements are listed in the order the tasks settled
allResultsAsSettled(ts) ==
    [k \in DOMAIN ts |-> ts[CHOOSE i \in DOMAIN ts : ts[i].settledAt = k]]

\* const allResults = await Promise.allSettled(testPromises): one settlement
\* per promise, at the index of its promise in testPromises
allResults(ts) == ts

\* The code after await Promise.allSettled(testPromises), up to the return.
collect(res, ts, opts) ==
    LET successfulResults ==
            Flatten([i \in DOMAIN ts |-> fulfilledValue(allResults(ts)[i])])
        isRejected(task) == task.st = "rejected"
        failedPromises == SelectSeq(allResults(ts), isRejected)
        failures == [i \in DOMAIN failedPromises |->
                        TaskError(failedPromises[i].suite, failedPromises[i].file)]
        passedResult(r) == r.passed
        failedResult(r) == ~r.passed
        collected == [res EXCEPT !.results = successfulResults,
                                 !.errors = @ \o failures]
        failed == CountIf(successfulResults, failedResult)
        total == Len(successfulResults)
    IN IF Len(failedPromises) > 0 /\ ~continueOnErrorOf(opts)
       THEN catch(collected, AbortError(Len(failedPromises)))
       ELSE [collected EXCEPT
                !.summary = [total |-> total,
                             passed |-> CountIf(successfulResults, passedResult),
                             failed |-> failed,
                             skipped |-> 0],
                !.success = (failed = 0),
                !.cacheStats = IF enableCacheOf(opts)
                               THEN Some([hits |-> 0, misses |-> total, savedTime |-> 0])
                               ELSE NoCacheStats]

----------------------------------------------------------------------------
(* TestQuarantine and quarantineTests *)

DefaultFailureThreshold == 3

\* `${result.suite}:${result.file}:${result.name}`, as its characters
keyOf(testResult) ==
    Chars(testResult.suite) \o <<":">> \o Chars(testResult.file) \o <<":">>
        \o Chars(testResult.name)

\* failures.set(key, (failures.get(key) || 0) + 1)
countUp(failures, key) ==
    [k \in DOMAIN failures \cup {key} |->
        IF k = key THEN (IF key \in DOMAIN failures THEN failures[key] ELSE 0) + 1
        ELSE failures[k]]

\* results.forEach(...): the Map of failure counts per key
RECURSIVE countFailures(_, _)
countFailures(results, failures) ==
    IF results = <<>> THEN failures
    ELSE countFailures(Tail(results),
                       IF ~Head(results).passed
                       THEN countUp(failures, keyOf(Head(results)))
                       ELSE failures)

\* mutant: a key is quarantined only above the threshold
exceedsThreshold(count, failureThreshold) == count > failureThreshold

\* count >= failureThreshold
reachesThreshold(count, failureThreshold) == count >= failureThreshold

\* TestQuarantine.quarantine
quarantine(quarantined, testId) == quarantined \cup {testId}

\* quarantineTests(results, quarantine, failureThreshold): the set afterwards
quarantineTests(results, quarantined, failureThreshold) ==
    LET failures == countFailures(results, [k \in {} |-> 0])
    IN quarantined \cup
       UNION {quarantine({}, testId) :
                 testId \in {k \in DOMAIN failures :
                                reachesThreshold(failures[k], failureThreshold)}}

----------------------------------------------------------------------------
(* parallelLimit (src/src/async/index.ts) *)

\* no Promise.race / Promise.all is being awaited
NoAwait == [kind |-> "none", members |-> {}, left |-> {}, settled |-> FALSE]

\* mutant: the loop waits only once the array is longer than the limit
overLimit(length, limit) == length > limit

\* if (executing.length >= limit)
atLimit(length, limit) == length >= limit

\* The for loop from item st.started + 1 on, up to its next await or its end:
\* each item's operation is started and its promise pushed onto executing; the
\* loop stops at await Promise.race(executing), and after the last item at
\* await Promise.all(executing), or returns when executing is empty.
RECURSIVE forLoop(_, _, _)
forLoop(count, limit, st) ==
    IF st.started = count
    THEN [started |-> st.started, executing |-> st.executing,
          at |-> IF Len(st.executing) > 0 THEN "all" ELSE "resolved"]
    ELSE LET item == st.started + 1
             pushed == Append(st.executing, item)
         IN IF atLimit(Len(pushed), limit)
            THEN [started |-> item, executing |-> pushed, at |-> "race"]
            ELSE forLoop(count, limit, [started |-> item, executing |-> pushed])

\* executing.splice(executing.indexOf(promise), 1)
splice(array, item) ==
    LET other(x) == x # item
    IN SelectSeq(array, other)

\* a promise job: the continuation of executeWithCleanup after its await
\* ("cont"), a reaction of the awaited Promise.race / Promise.all to a settled
\* member ("react"), or the continuation of parallelLimit after its await
\* ("resume")
Job(type, item, ok) == [type |-> type, item |-> item, ok |-> ok]

----------------------------------------------------------------------------
(* Values the variables of an operation hold while another one is exercised *)

NoOptions ==
    [concurrency |-> NoneInt, sharding |-> [has |-> FALSE, v |-> FALSE],
     shardCount |-> NoneInt, shardIndex |-> NoneInt,
     continueOnError |-> [has |-> FALSE, v |-> FALSE],
     enableCache |-> [has |-> FALSE, v |-> FALSE],
     include |-> NoneSeq, exclude |-> NoneSeq, tags |-> NoneSeq, excludeTags |-> NoneSeq]

NotResolved == [done |-> FALSE, threw |-> FALSE, error |-> "", order |-> <<>>]
NotSharded == [done |-> FALSE, shards |-> <<>>]
NotRegistered == [called |-> FALSE, name |-> "", duplicate |-> FALSE, threw |-> FALSE]

RegObsIdle == firstDef = EmptyRegistry /\ lastRegister = NotRegistered
ResolveIdle == resolveArgs = <<>> /\ resolveRet = NotResolved
ShardIdle == shardArgs = [files |-> <<>>, shardCount |-> 0] /\ shardRet = NotSharded
OrchIdle ==
    /\ suiteNames = <<>> /\ options = NoOptions /\ pc = "idle"
    /\ tasks = <<>> /\ permits = 0 /\ waiting = <<>> /\ microq = <<>>
    /\ result = EmptyResult
NoCriteria == [include |-> NoneSeq, exclude |-> NoneSeq, tags |-> NoneSeq,
               excludeTags |-> NoneSeq]
FilterIdle == filterArgs = [suites |-> <<>>, options |-> NoCriteria] /\ filterRet = <<>>
NoQuarantineArgs == [results |-> <<>>, quarantine |-> {}, failureThreshold |-> NoneInt]
QuarantineIdle ==
    /\ quarantinedTests = {} /\ quarantineArgs = NoQuarantineArgs /\ quarantineDone = FALSE
ParallelIdle ==
    /\ plArgs = [items |-> 0, limit |-> 0] /\ plPc = "idle"
    /\ operations = <<>> /\ promises = <<>> /\ executing = <<>> /\ plResults = <<>>
    /\ awaited = NoAwait /\ jobs = <<>>
CallsIdle == callArgs = [suiteNames |-> <<>>, calls |-> <<>>] /\ callRet = <<>>

----------------------------------------------------------------------------
(* Specification SpecResolve: direct calls of resolveDependencies *)

\* a registry over Names in which every suite lists up to MaxDeps distinct names
DepChoices == {NoneSeq} \cup {Some(d) : d \in DistinctSeqsUpTo(Names, MaxDeps)}
ResolveRegistries ==
    UNION {[S -> DepChoices] : S \in SUBSET Names}
RegistryOfDeps(depsOf) ==
    [n \in DOMAIN depsOf |-> Suite(n, <<>>, depsOf[n], NoneSeq)]

InitResolve ==
    /\ suites \in {RegistryOfDeps(d) : d \in ResolveRegistries}
    /\ resolveArgs \in SeqsUpTo(Names, MaxRequested)
    /\ resolveRet = NotResolved
    /\ RegObsIdle /\ ShardIdle /\ OrchIdle
    /\ CallsIdle
    /\ FilterIdle
    /\ QuarantineIdle
    /\ ParallelIdle

ResolveCall ==
    /\ ~resolveRet.done
    /\ resolveRet' = [done |-> TRUE] @@ resolveDependencies(suites, resolveArgs)
    /\ UNCHANGED <<suites, resolveArgs, regObsVars, shardVars, orchVars, callVars,
                   filterVars, quarantineVars, parallelVars>>

NextResolve == ResolveCall

SpecResolve == InitResolve /\ [][NextResolve]_vars

----------------------------------------------------------------------------
(* Specification SpecShards: direct calls of createShards *)

ShardFileNames == {"f1", "f2", "f3", "f4", "f5"}

InitShards ==
    /\ shardArgs \in [files : SeqsUpTo(ShardFileNames, MaxShardFiles),
                      shardCount : 0..MaxShards]
    /\ shardRet = NotSharded
    /\ suites = EmptyRegistry
    /\ RegObsIdle /\ ResolveIdle /\ OrchIdle
    /\ CallsIdle
    /\ FilterIdle
    /\ QuarantineIdle
    /\ ParallelIdle

ShardCall ==
    /\ ~shardRet.done
    /\ shardRet' = [done |-> TRUE,
                    shards |-> createShards(shardArgs.files, shardArgs.shardCount)]
    /\ UNCHANGED <<suites, shardArgs, regObsVars, resolveVars, orchVars, callVars,
                   filterVars, quarantineVars, parallelVars>>

NextShards == ShardCall

SpecShards == InitShards /\ [][NextShards]_vars

----------------------------------------------------------------------------
(* Specification SpecRegistry: sequences of registerSuite calls *)

RegistrySuites ==
    {Suite(n, f, NoneSeq, NoneSeq) : n \in Names, f \in {<<"a1">>, <<"a2">>}}

InitRegistry ==
    /\ suites = EmptyRegistry
    /\ RegObsIdle /\ ResolveIdle /\ ShardIdle /\ OrchIdle
    /\ CallsIdle
    /\ FilterIdle
    /\ QuarantineIdle
    /\ ParallelIdle

RegisterSuite(suite) ==
    /\ suites' = registerSuite(suites, suite)
    /\ firstDef' = IF suite.name \in DOMAIN firstDef THEN firstDef
                   ELSE registerSuite(firstDef, suite)
    /\ lastRegister' = [called |-> TRUE, name |-> suite.name,
                        duplicate |-> suite.name \in DOMAIN suites, threw |-> FALSE]
    /\ UNCHANGED <<resolveVars, shardVars, orchVars, callVars, filterVars, quarantineVars,
                   parallelVars>>

NextRegistry == \E suite \in RegistrySuites : RegisterSuite(suite)

SpecRegistry == InitRegistry /\ [][NextRegistry]_vars

----------------------------------------------------------------------------
(* Specification Spec: one orchestrate call and its tasks *)

\* Registries of the suites A (two files, tagged) and B (one file, depending
\* on A): A with or without a dependency on B (a cycle), with or without a
\* repeated file name, B with a file of its own or one of A's.
OrchRegistries ==
    {[n \in {"A", "B"} |->
        IF n = "A" THEN Suite("A", aFiles, aDeps, Some(<<"t1">>))
        ELSE Suite("B", bFiles, Some(<<"A">>), NoneSeq)] :
     aFiles \in {<<"a1", "a2">>, <<"a1", "a1">>},
     aDeps \in {NoneSeq, Some(<<"B">>)},
     bFiles \in {<<"b1">>, <<"a1">>}}

OrchRequests == {<<"A", "B">>, <<"B">>, <<"A">>, <<"C", "B">>}

OptInts(S) == {NoneInt} \cup {Some(k) : k \in S}

\* sharding off, or on with every shardCount and shardIndex up to MaxShardCount
\* (shardIndex = shardCount is out of range)
ShardingChoices ==
    {[sharding |-> [has |-> FALSE, v |-> FALSE], shardCount |-> NoneInt,
      shardIndex |-> NoneInt]}
    \cup [sharding : {Some(TRUE)},
          shardCount : OptInts(0..MaxShardCount),
          shardIndex : OptInts(0..MaxShardCount)]

FilterChoices ==
    {[include |-> NoneSeq, exclude |-> NoneSeq, tags |-> NoneSeq, excludeTags |-> NoneSeq],
     [include |-> Some(<<"1">>), exclude |-> NoneSeq, tags |-> NoneSeq,
      excludeTags |-> NoneSeq],
     [include |-> NoneSeq, exclude |-> NoneSeq, tags |-> NoneSeq,
      excludeTags |-> Some(<<"t1">>)]}

OrchOptions ==
    {[concurrency |-> c, sharding |-> sh.sharding, shardCount |-> sh.shardCount,
      shardIndex |-> sh.shardIndex, continueOnError |-> coe, enableCache |-> cache,
      include |-> f.include, exclude |-> f.exclude, tags |-> f.tags,
      excludeTags |-> f.excludeTags] :
     c \in OptInts(0..MaxConcurrency),
     sh \in ShardingChoices,
     coe \in {[has |-> FALSE, v |-> FALSE], Some(FALSE)},
     cache \in {[has |-> FALSE, v |-> FALSE]},
     f \in FilterChoices}

Init ==
    /\ suites \in OrchRegistries
    /\ suiteNames \in OrchRequests
    /\ options \in OrchOptions
    /\ pc = "idle"
    /\ tasks = <<>> /\ permits = 0 /\ waiting = <<>> /\ microq = <<>>
    /\ result = EmptyResult
    /\ RegObsIdle /\ ResolveIdle /\ ShardIdle
    /\ CallsIdle
    /\ FilterIdle
    /\ QuarantineIdle
    /\ ParallelIdle

\* orchestrate, from the call to its first await (or to its return when
\* resolveDependencies throws into the catch block)
Orchestrate ==
    /\ pc = "idle"
    /\ \E p \in {plan(suites, suiteNames, options)} :
         IF p.threw
         THEN /\ result' = catch(EmptyResult, CycleError(p.error))
              /\ pc' = "returned"
              /\ UNCHANGED <<tasks, permits, waiting, microq>>
         ELSE \E sem \in {dispatch([permits |-> concurrencyOf(options),
                                    waiting |-> <<>>, microq |-> <<>>],
                                   Len(p.pairs), 1)} :
              /\ result' = [EmptyResult EXCEPT !.sharding = p.sharding]
              /\ tasks' = [i \in DOMAIN p.pairs |->
                             [suite |-> p.pairs[i].suite, file |-> p.pairs[i].file,
                              st |-> IF i \in Range(sem.waiting) THEN "waiting"
                                     ELSE "acquired",
                              value |-> <<>>, settledAt |-> 0]]
              /\ permits' = sem.permits
              /\ waiting' = sem.waiting
              /\ microq' = sem.microq
              /\ pc' = "awaiting"
    /\ UNCHANGED <<suites, suiteNames, options, regObsVars, resolveVars, shardVars,
                   callVars, filterVars, quarantineVars, parallelVars>>

\* mutant: a task starts only once every task of the suites its suite depends
\* on has settled
StartRunnerAfterDependencies ==
    /\ pc = "awaiting"
    /\ microq # <<>>
    /\ \A i \in DOMAIN tasks :
          tasks[i].suite \in Range(dependenciesOf(suites, tasks[Head(microq)].suite))
             => tasks[i].st \in {"fulfilled", "rejected"}
    /\ tasks' = [tasks EXCEPT ![Head(microq)].st = "running"]
    /\ microq' = Tail(microq)
    /\ UNCHANGED <<suites, suiteNames, options, pc, permits, waiting, result,
                   regObsVars, resolveVars, shardVars, callVars, filterVars,
                   quarantineVars, parallelVars>>

\* the .then callback of the oldest resolved acquire(): runTestSuite is invoked
StartRunner ==
    /\ pc = "awaiting"
    /\ microq # <<>>
    /\ tasks' = [tasks EXCEPT ![Head(microq)].st = "running"]
    /\ microq' = Tail(microq)
    /\ UNCHANGED <<suites, suiteNames, options, pc, permits, waiting, result,
                   regObsVars, resolveVars, shardVars, callVars,
                   filterVars, quarantineVars, parallelVars>>

\* the position of the next settlement among the settlements of the call
\* (observation: the code keeps no such counter)
nextSettlement ==
    Cardinality({i \in DOMAIN tasks : tasks[i].st \in {"fulfilled", "rejected"}}) + 1

\* the finally block of a task: release(), which may resolve the oldest waiter
Released(task, settled) ==
    LET sem == release([permits |-> permits, waiting |-> waiting])
    IN /\ permits' = sem.permits
       /\ waiting' = sem.waiting
       /\ microq' = microq \o sem.granted
       /\ tasks' = [i \in DOMAIN tasks |->
                      IF i = task THEN settled
                      ELSE IF <<i>> = sem.granted THEN [tasks[i] EXCEPT !.st = "acquired"]
                      ELSE tasks[i]]

\* the runner of a task returns its TestResult
RunnerReturns(task, passed) ==
    /\ pc = "awaiting"
    /\ tasks[task].st = "running"
    /\ Released(task, [tasks[task] EXCEPT
                          !.st = "fulfilled", !.settledAt = nextSettlement,
                          !.value = <<[suite |-> tasks[task].suite,
                                       file |-> tasks[task].file,
                                       passed |-> passed]>>])
    /\ UNCHANGED <<suites, suiteNames, options, pc, result,
                   regObsVars, resolveVars, shardVars, callVars,
                   filterVars, quarantineVars, parallelVars>>

\* mutant: release() is reached only when the runner returns (no finally)
RunnerThrowsKeepingPermit(task) ==
    /\ pc = "awaiting"
    /\ tasks[task].st = "running"
    /\ tasks' = [tasks EXCEPT ![task].st = "rejected",
                              ![task].settledAt = nextSettlement]
    /\ UNCHANGED <<suites, suiteNames, options, pc, result, permits, waiting, microq,
                   regObsVars, resolveVars, shardVars, callVars, filterVars,
                   quarantineVars, parallelVars>>

\* the runner of a task throws
RunnerThrows(task) ==
    /\ pc = "awaiting"
    /\ tasks[task].st = "running"
    /\ Released(task, [tasks[task] EXCEPT !.st = "rejected",
                                          !.settledAt = nextSettlement])
    /\ UNCHANGED <<suites, suiteNames, options, pc, result,
                   regObsVars, resolveVars, shardVars, callVars,
                   filterVars, quarantineVars, parallelVars>>

\* mutant: Promise.all in place of Promise.allSettled (the first rejection
\* settles it)
AllFulfilledOrOneRejected ==
    \/ \A i \in DOMAIN tasks : tasks[i].st = "fulfilled"
    \/ \E i \in DOMAIN tasks : tasks[i].st = "rejected"

AllSettled == \A i \in DOMAIN tasks : tasks[i].st \in {"fulfilled", "rejected"}

\* Promise.allSettled resolves: the results are collected and the call returns
Join ==
    /\ pc = "awaiting"
    /\ AllSettled
    /\ result' = collect(result, tasks, options)
    /\ pc' = "returned"
    /\ UNCHANGED <<suites, suiteNames, options, tasks, permits, waiting, microq,
                   regObsVars, resolveVars, shardVars, callVars,
                   filterVars, quarantineVars, parallelVars>>

Next ==
    \/ Orchestrate
    \/ StartRunner
    \/ \E task \in DOMAIN tasks : \E passed \in BOOLEAN : RunnerReturns(task, passed)
    \/ \E task \in DOMAIN tasks : RunnerThrows(task)
    \/ Join

Spec == Init /\ [][Next]_vars

\* the indices a dispatched task can have (at most three files are registered)
TaskIds == 1..3

\* the runner of a task returns or throws
RunnerFinishes(task) ==
    /\ task \in DOMAIN tasks
    /\ \/ \E passed \in BOOLEAN : RunnerReturns(task, passed)
       \/ RunnerThrows(task)

\* the calls of Init without sharding and filter criteria, which only change
\* which tasks are dispatched
InitFair ==
    /\ Init
    /\ ~shardingOf(options)
    /\ ~options.include.has /\ ~options.excludeTags.has

\* Spec with the scheduling the runtime gives: pending promise jobs are run
\* (StartRunner, Join), and, the hypothesis of the progress claims, every
\* runner invoked eventually returns or throws
SpecFair ==
    /\ InitFair /\ [][Next]_vars
    /\ WF_vars(Orchestrate)
    /\ WF_vars(StartRunner)
    /\ \A task \in TaskIds : WF_vars(RunnerFinishes(task))
    /\ WF_vars(Join)

----------------------------------------------------------------------------
(* Specification SpecCalls: a series of orchestrate calls on one            *)
(* orchestrator, each reduced to the tasks it dispatches                    *)

\* the options of the N calls that shard one run: sharding on, shardCount N,
\* shardIndex 0..N-1, the same filter criteria
ShardedCalls(N, f) ==
    [k \in 1..N |->
        [NoOptions EXCEPT !.sharding = Some(TRUE), !.shardCount = Some(N),
                          !.shardIndex = Some(k - 1),
                          !.include = f.include, !.exclude = f.exclude,
                          !.tags = f.tags, !.excludeTags = f.excludeTags]]

\* every option given, with the value documented as its default
ExplicitDefaults ==
    [concurrency |-> Some(DefaultConcurrency), sharding |-> Some(FALSE),
     shardCount |-> Some(DefaultShardCount), shardIndex |-> Some(0),
     continueOnError |-> Some(TRUE), enableCache |-> Some(FALSE),
     include |-> Some(<<>>), exclude |-> Some(<<>>),
     tags |-> Some(<<>>), excludeTags |-> Some(<<>>)]

CallSeries ==
    {ShardedCalls(N, f) : N \in 1..MaxShardCount, f \in FilterChoices}
    \cup {<<NoOptions, ExplicitDefaults>>}

InitCalls ==
    /\ suites \in OrchRegistries
    /\ callArgs \in [suiteNames : OrchRequests, calls : CallSeries]
    /\ callRet = <<>>
    /\ RegObsIdle /\ ResolveIdle /\ ShardIdle /\ OrchIdle
    /\ FilterIdle
    /\ QuarantineIdle
    /\ ParallelIdle

\* The next orchestrate call of the series: the (suite, file) tasks its
\* dispatch loop creates, none when resolveDependencies throws.
OrchestrateCall ==
    /\ Len(callRet) < Len(callArgs.calls)
    /\ callRet' = Append(callRet,
                         plan(suites, callArgs.suiteNames,
                              callArgs.calls[Len(callRet) + 1]).pairs)
    /\ UNCHANGED <<suites, callArgs, regObsVars, resolveVars, shardVars, orchVars,
                   filterVars, quarantineVars, parallelVars>>

NextCalls == OrchestrateCall

SpecCalls == InitCalls /\ [][NextCalls]_vars

----------------------------------------------------------------------------
(* Specification SpecFilter: direct calls of filterTests, on a suite list   *)
(* and then on its own output                                               *)

NameAt == <<"A", "B", "C">>

FilterFiles == {<<"a1", "a2">>, <<"a1", "b1">>}
FilterSuiteTags == {NoneSeq, Some(<<>>), Some(<<"t1", "t2">>)}

\* suite lists of up to MaxFilterSuites suites with distinct names
FilterSuiteLists ==
    UNION {{[i \in 1..k |-> Suite(NameAt[i], c[i].files, NoneSeq, c[i].tags)] :
                c \in [1..k -> [files : FilterFiles, tags : FilterSuiteTags]]} :
           k \in 1..MaxFilterSuites}

\* each criterion absent, empty, or a list of tags or patterns
FilterCriteria ==
    [include : {NoneSeq, Some(<<>>), Some(<<"a*">>), Some(<<"1", "b*">>)},
     exclude : {NoneSeq, Some(<<>>), Some(<<"a1">>), Some(<<"*1">>)},
     tags : {NoneSeq, Some(<<>>), Some(<<"t1">>), Some(<<"t3">>)},
     excludeTags : {NoneSeq, Some(<<>>), Some(<<"t2">>)}]

InitFilter ==
    /\ suites = EmptyRegistry
    /\ filterArgs \in [suites : FilterSuiteLists, options : FilterCriteria]
    /\ filterRet = <<>>
    /\ RegObsIdle /\ ResolveIdle /\ ShardIdle /\ OrchIdle /\ CallsIdle
    /\ QuarantineIdle
    /\ ParallelIdle

\* filterTests(suites, options)
FilterCall ==
    /\ filterRet = <<>>
    /\ filterRet' = <<filterTests(filterArgs.suites, filterArgs.options)>>
    /\ UNCHANGED <<suites, filterArgs, regObsVars, resolveVars, shardVars, orchVars,
                   callVars, quarantineVars, parallelVars>>

\* filterTests(previous output, options)
FilterAgain ==
    /\ Len(filterRet) = 1
    /\ filterRet' = Append(filterRet, filterTests(filterRet[1], filterArgs.options))
    /\ UNCHANGED <<suites, filterArgs, regObsVars, resolveVars, shardVars, orchVars,
                   callVars, quarantineVars, parallelVars>>

NextFilter == FilterCall \/ FilterAgain

SpecFilter == InitFilter /\ [][NextFilter]_vars

----------------------------------------------------------------------------
(* Specification SpecQuarantine: direct calls of quarantineTests *)

\* results of tests in suites and files whose names may hold a colon
QuarantineResults ==
    [suite : {"s", "s:f"}, file : {"f", "f:f"}, name : {"n"}, passed : BOOLEAN]

\* the quarantine before the call: empty, or holding a test id already
QuarantineSets == {{}, {keyOf([suite |-> "s", file |-> "f", name |-> "n"])}}

InitQuarantine ==
    /\ suites = EmptyRegistry
    /\ quarantineArgs \in [results : SeqsUpTo(QuarantineResults, MaxResults),
                           quarantine : QuarantineSets,
                           failureThreshold : OptInts(1..MaxThreshold)]
    /\ quarantinedTests = quarantineArgs.quarantine
    /\ quarantineDone = FALSE
    /\ RegObsIdle /\ ResolveIdle /\ ShardIdle /\ OrchIdle /\ CallsIdle /\ FilterIdle
    /\ ParallelIdle

\* the default of the parameter failureThreshold
failureThresholdOf(args) ==
    IF args.failureThreshold.has THEN args.failureThreshold.v ELSE DefaultFailureThreshold

QuarantineTests ==
    /\ ~quarantineDone
    /\ quarantinedTests' = quarantineTests(quarantineArgs.results, quarantinedTests,
                                           failureThresholdOf(quarantineArgs))
    /\ quarantineDone' = TRUE
    /\ UNCHANGED <<suites, quarantineArgs, regObsVars, resolveVars, shardVars, orchVars,
                   callVars, filterVars, parallelVars>>

NextQuarantine == QuarantineTests

SpecQuarantine == InitQuarantine /\ [][NextQuarantine]_vars

----------------------------------------------------------------------------
(* Specification SpecParallel: one parallelLimit call, its operations and   *)
(* the promise jobs between them                                            *)

InitParallel ==
    /\ suites = EmptyRegistry
    /\ plArgs \in [items : 0..MaxItems, limit : 1..MaxLimit]
    /\ plPc = "idle"
    /\ operations = <<>> /\ promises = <<>> /\ executing = <<>> /\ plResults = <<>>
    /\ awaited = NoAwait /\ jobs = <<>>
    /\ RegObsIdle /\ ResolveIdle /\ ShardIdle /\ OrchIdle /\ CallsIdle /\ FilterIdle
    /\ QuarantineIdle

\* parallelLimit runs its loop up to the next await (or to its return): the
\* operations of the items passed are started, their promises pending
RunLoop ==
    \E after \in {forLoop(plArgs.items, plArgs.limit,
                          [started |-> Len(operations), executing |-> executing])} :
        /\ operations' = [i \in 1..after.started |->
                            IF i \in DOMAIN operations THEN operations[i] ELSE "pending"]
        /\ promises' = [i \in 1..after.started |->
                          IF i \in DOMAIN promises THEN promises[i] ELSE "pending"]
        /\ executing' = after.executing
        /\ plPc' = after.at
        /\ awaited' = IF after.at \in {"race", "all"}
                      THEN [kind |-> after.at, members |-> Range(after.executing),
                            left |-> Range(after.executing), settled |-> FALSE]
                      ELSE NoAwait

\* the call of parallelLimit(items, limit, operation)
ParallelLimit ==
    /\ plPc = "idle"
    /\ RunLoop
    /\ UNCHANGED <<suites, plArgs, plResults, jobs, regObsVars, resolveVars, shardVars,
                   orchVars, callVars, filterVars, quarantineVars>>

\* the promise operation(item) returned settles (it may have been settled
\* when returned): the continuation of executeWithCleanup becomes a job
OperationSettles(item, ok) ==
    /\ item \in DOMAIN operations
    /\ operations[item] = "pending"
    /\ operations' = [operations EXCEPT ![item] = IF ok THEN "resolved" ELSE "rejected"]
    /\ jobs' = Append(jobs, Job("cont", item, ok))
    /\ UNCHANGED <<suites, plArgs, plPc, promises, executing, plResults, awaited,
                   regObsVars, resolveVars, shardVars, orchVars, callVars, filterVars,
                   quarantineVars>>

\* executeWithCleanup after await operation(item): results.push on success,
\* the finally block's splice, and its promise settles, which queues the
\* reaction of a Promise.race / Promise.all awaiting it
Continuation ==
    /\ jobs # <<>> /\ Head(jobs).type = "cont"
    /\ LET item == Head(jobs).item
           ok == Head(jobs).ok
       IN /\ plResults' = IF ok THEN Append(plResults, item) ELSE plResults
          /\ executing' = splice(executing, item)
          /\ promises' = [promises EXCEPT ![item] = IF ok THEN "fulfilled" ELSE "rejected"]
          /\ jobs' = IF item \in awaited.members /\ ~awaited.settled
                     THEN Append(Tail(jobs), Job("react", item, ok))
                     ELSE Tail(jobs)
    /\ UNCHANGED <<suites, plArgs, plPc, operations, awaited,
                   regObsVars, resolveVars, shardVars, orchVars, callVars, filterVars,
                   quarantineVars>>

\* the awaited Promise.race / Promise.all learns that a member settled: race
\* settles with the first, all rejects with the first rejection and fulfils
\* with the last fulfilment; settling queues the continuation of parallelLimit
Reaction ==
    /\ jobs # <<>> /\ Head(jobs).type = "react"
    /\ LET item == Head(jobs).item
           ok == Head(jobs).ok
           left == awaited.left \ {item}
           settles == /\ ~awaited.settled
                      /\ (awaited.kind = "race" \/ ~ok \/ left = {})
       IN /\ awaited' = IF awaited.settled THEN awaited
                        ELSE [awaited EXCEPT !.left = left, !.settled = settles]
          /\ jobs' = IF settles THEN Append(Tail(jobs), Job("resume", item, ok))
                     ELSE Tail(jobs)
    /\ UNCHANGED <<suites, plArgs, plPc, operations, promises, executing, plResults,
                   regObsVars, resolveVars, shardVars, orchVars, callVars, filterVars,
                   quarantineVars>>

\* parallelLimit after its await: a rejection leaves the function (its promise
\* rejects); otherwise the loop goes on, or after Promise.all results is
\* returned
Resume ==
    /\ jobs # <<>> /\ Head(jobs).type = "resume"
    /\ jobs' = Tail(jobs)
    /\ IF ~Head(jobs).ok
       THEN /\ plPc' = "rejected"
            /\ awaited' = NoAwait
            /\ UNCHANGED <<operations, promises, executing>>
       ELSE IF plPc = "all"
       THEN /\ plPc' = "resolved"
            /\ awaited' = NoAwait
            /\ UNCHANGED <<operations, promises, executing>>
       ELSE RunLoop
    /\ UNCHANGED <<suites, plArgs, plResults,
                   regObsVars, resolveVars, shardVars, orchVars, callVars, filterVars,
                   quarantineVars>>

NextParallel ==
    \/ ParallelLimit
    \/ \E item \in DOMAIN operations : \E ok \in BOOLEAN : OperationSettles(item, ok)
    \/ Continuation
    \/ Reaction
    \/ Resume

SpecParallel == InitParallel /\ [][NextParallel]_vars

----------------------------------------------------------------------------
(* Dependency graph notions used to state the claims *)

\* the names S reaches along zero or more dependency edges
RECURSIVE ReachableFrom(_, _)
ReachableFrom(reg, S) ==
    LET step == S \cup UNION {Range(dependenciesOf(reg, n)) : n \in S}
    IN IF step = S THEN S ELSE ReachableFrom(reg, step)

\* n lies on a dependency cycle
OnCycle(reg, n) == n \in ReachableFrom(reg, Range(dependenciesOf(reg, n)))

Required(reg, requested) == ReachableFrom(reg, Range(requested))

HasCycle(reg, requested) == \E n \in Required(reg, requested) : OnCycle(reg, n)

NoDuplicates(s) == \A i, j \in DOMAIN s : i # j => s[i] # s[j]

DependenciesFirst(reg, order) ==
    \A i \in DOMAIN order :
        \A d \in Range(dependenciesOf(reg, order[i])) :
            \E j \in 1..(i - 1) : order[j] = d

----------------------------------------------------------------------------
(* Claims about resolveDependencies (SpecResolve) *)

\* C1: for an acyclic registry in which every referenced name is registered and
\* any list of requested names (duplicates allowed), the returned list holds the
\* requested suites and the suites they transitively require, each exactly once,
\* every suite strictly after each of its dependencies.
C1_ResolveTopological ==
    (/\ resolveRet.done
     /\ ~HasCycle(suites, resolveArgs)
     /\ Required(suites, resolveArgs) \subseteq DOMAIN suites)
    => /\ ~resolveRet.threw
       /\ Range(resolveRet.order) = Required(suites, resolveArgs)
       /\ NoDuplicates(resolveRet.order)
       /\ DependenciesFirst(suites, resolveRet.order)

\* a duplicated request whose suite has a two-step chain of dependencies
C1_Witness ==
    /\ resolveRet.done
    /\ ~HasCycle(suites, resolveArgs)
    /\ Required(suites, resolveArgs) \subseteq DOMAIN suites
    /\ Len(resolveArgs) = 2 /\ resolveArgs[1] = resolveArgs[2]
    /\ Len(resolveRet.order) = 3
    /\ \E n \in Names : dependenciesOf(suites, n) # <<>>
                        /\ dependenciesOf(suites, n)[1] # resolveRet.order[1]

\* C2: when the graph reachable from the requested names has a cycle (a
\* self-dependency included), the call throws the cycle error, naming a suite
\* that lies on a cycle, and returns no order.
C2_CycleThrows ==
    (resolveRet.done /\ HasCycle(suites, resolveArgs))
    => /\ resolveRet.threw
       /\ OnCycle(suites, resolveRet.error)
       /\ resolveRet.order = <<>>

\* a cycle of length two reached through a suite that is not on it
C2_Witness ==
    /\ resolveRet.done /\ resolveRet.threw
    /\ HasCycle(suites, resolveArgs)
    /\ \E n \in Range(resolveArgs) : ~OnCycle(suites, n)
    /\ resolveRet.error \notin Range(dependenciesOf(suites, resolveRet.error))

----------------------------------------------------------------------------
(* Claims about createShards (SpecShards) *)

Occurrences(s, x) == Cardinality({i \in DOMAIN s : s[i] = x})

RECURSIVE SumOver(_, _)
SumOver(f, S) ==
    IF S = {} THEN 0
    ELSE LET x == CHOOSE y \in S : TRUE IN f[x] + SumOver(f, S \ {x})

\* every file name occurs in the shards together as often as in the list
NothingDroppedOrAdded(files, shards) ==
    \A f \in Range(files) \cup UNION {Range(shards[k].files) : k \in DOMAIN shards} :
        SumOver([k \in DOMAIN shards |-> Occurrences(shards[k].files, f)], DOMAIN shards)
            = Occurrences(files, f)

\* C4 as stated: the shards' files together are the files of F and no two
\* shards share a file, for every F (repeats allowed) and N >= 1.
C4_AsStated ==
    (shardRet.done /\ shardArgs.shardCount >= 1)
    => /\ NothingDroppedOrAdded(shardArgs.files, shardRet.shards)
       /\ \A k, l \in DOMAIN shardRet.shards :
            k # l => Range(shardRet.shards[k].files) \cap Range(shardRet.shards[l].files) = {}

\* C4 amended: nothing is dropped or added (every name occurs in the shards
\* together exactly as often as in F), and a name two shards share is a name F
\* repeats; for an F without repeats no two shards share a file.
C4_ShardsPartition ==
    (shardRet.done /\ shardArgs.shardCount >= 1)
    => /\ NothingDroppedOrAdded(shardArgs.files, shardRet.shards)
       /\ \A k, l \in DOMAIN shardRet.shards :
            k # l => \A f \in Range(shardRet.shards[k].files)
                              \cap Range(shardRet.shards[l].files) :
                        Occurrences(shardArgs.files, f) >= 2

\* five distinct files over two shards
C4_Witness ==
    /\ shardRet.done /\ shardArgs.shardCount = 2
    /\ Len(shardArgs.files) = 5 /\ NoDuplicates(shardArgs.files)
    /\ Len(shardRet.shards[1].files) = 3 /\ Len(shardRet.shards[2].files) = 2

\* the positions (1-based) of F whose 0-based index is k modulo n, in order
PositionsOf(len, k, n) ==
    LET count == Cardinality({i \in 0..(len - 1) : i % n = k})
    IN [j \in 1..count |-> (k + (j - 1) * n) + 1]

\* C5: exactly N shards, indexed 0..N-1, the file at position i in shard
\* i mod N, files keeping their order inside a shard.
C5_RoundRobin ==
    (shardRet.done /\ shardArgs.shardCount >= 1)
    => /\ Len(shardRet.shards) = shardArgs.shardCount
       /\ \A k \in DOMAIN shardRet.shards :
            /\ shardRet.shards[k].index = k - 1
            /\ shardRet.shards[k].total = shardArgs.shardCount
            /\ LET pos == PositionsOf(Len(shardArgs.files), k - 1, shardArgs.shardCount)
               IN shardRet.shards[k].files = [j \in DOMAIN pos |-> shardArgs.files[pos[j]]]

\* the scenario f1..f5 over 2 shards
C5_Witness ==
    /\ shardRet.done
    /\ shardArgs = [files |-> <<"f1", "f2", "f3", "f4", "f5">>, shardCount |-> 2]
    /\ shardRet.shards[1].files = <<"f1", "f3", "f5">>
    /\ shardRet.shards[2].files = <<"f2", "f4">>

----------------------------------------------------------------------------
(* Claims about registerSuite (SpecRegistry) *)

\* C6: a registerSuite call under a name already registered fails with
\* DuplicateSuite, and the definition registered first stays the one getSuite
\* returns.
C6_DuplicateRejected ==
    /\ (lastRegister.called /\ lastRegister.duplicate) => lastRegister.threw
    /\ \A n \in DOMAIN firstDef : getSuite(suites, n) = Some(firstDef[n])

----------------------------------------------------------------------------
(* Claims about one orchestrate call (Spec) *)

Running == {i \in DOMAIN tasks : tasks[i].st = "running"}

\* C3: for every concurrency K >= 1 and every interleaving of runner
\* completions, at most K runner invocations are started and not yet finished.
C3_AtMostKRunning ==
    concurrencyOf(options) >= 1 => Cardinality(Running) <= concurrencyOf(options)

\* K runners in flight while a further task waits for a permit
C3_Witness ==
    /\ concurrencyOf(options) = 2
    /\ Cardinality(Running) = 2
    /\ waiting # <<>>

C8_AsStated == ~HasCycle(suites, suiteNames) => (pc = "returned" \/ ENABLED Next)

\* C9: a task whose runner threw has a failed TestResult for its file in the
\* returned result, an entry in errors, and is counted in summary.total and
\* summary.failed.
C9_AsStated ==
    pc = "returned" =>
        \A i \in DOMAIN tasks :
            tasks[i].st = "rejected" =>
                /\ \E k \in DOMAIN result.results :
                      result.results[k] = [suite |-> tasks[i].suite,
                                           file |-> tasks[i].file, passed |-> FALSE]
                /\ TaskError(tasks[i].suite, tasks[i].file) \in Range(result.errors)
                /\ result.summary.total >= 1
                /\ result.summary.failed >= 1

\* C10: in a returned result, success holds exactly when summary.failed = 0 and
\* errors is empty.
C10_AsStated ==
    pc = "returned" =>
        (result.success <=> (result.summary.failed = 0 /\ result.errors = <<>>))

\* a runner has thrown or returned a failed TestResult
FailureObserved ==
    \E i \in DOMAIN tasks :
        \/ tasks[i].st = "rejected"
        \/ tasks[i].st = "fulfilled"
           /\ \E k \in DOMAIN tasks[i].value : ~tasks[i].value[k].passed

\* C11: with continueOnError = false, once a task failure (a runner threw or
\* returned passed = false) has been observed, no further runner invocation is
\* started, and the call reports failure.
C11_AsStated ==
    /\ [][(~continueOnErrorOf(options) /\ FailureObserved) => Running' \subseteq Running]_vars
    /\ []((~continueOnErrorOf(options) /\ FailureObserved /\ pc = "returned")
            => ~result.success)

\* the suites of a call after dependency resolution and filtering
FilteredSuites(reg, names, opts) ==
    filterTests(lookupSuites(reg, resolveDependencies(reg, names).order), opts)

\* their files, flattened in order
FilteredFiles(reg, names, opts) ==
    LET fs == FilteredSuites(reg, names, opts)
    IN Flatten([i \in DOMAIN fs |-> fs[i].files])

\* sharding is on and the given shardIndex names none of the shardCount shards
ShardIndexOutOfRange(opts) ==
    /\ shardingOf(opts)
    /\ shardCountOf(opts) >= 1
    /\ opts.shardIndex.has
    /\ opts.shardIndex.v \notin 0..(shardCountOf(opts) - 1)

\* C12: with sharding enabled and shardIndex outside 0..shardCount-1,
\* orchestrate falls back to shard 0: it executes exactly the files of shard 0,
\* records shardIndex 0 in result.sharding, and does not fail.
C12_AsStated ==
    (/\ pc # "idle"
     /\ ~HasCycle(suites, suiteNames)
     /\ ShardIndexOutOfRange(options))
    => /\ result.sharding.has
       /\ result.sharding.v.shardIndex = 0
       /\ [i \in DOMAIN tasks |-> tasks[i].file]
            = createShards(FilteredFiles(suites, suiteNames, options),
                           shardCountOf(options))[1].files
       /\ \A k \in DOMAIN result.errors : result.errors[k].kind = TaskError("", "").kind

----------------------------------------------------------------------------
(* Claims about series of orchestrate calls (SpecCalls) *)

\* the series shards one run over N >= 1 calls and all N calls were made
ShardedSeriesDone ==
    /\ callArgs.calls # <<>>
    /\ shardingOf(callArgs.calls[1])
    /\ Len(callRet) = Len(callArgs.calls)

\* the (suite, file) pairs of the filtered set, one per listed file
FilteredPairs(reg, names, opts) ==
    LET fs == FilteredSuites(reg, names, opts)
    IN Flatten([i \in DOMAIN fs |->
                  [j \in DOMAIN fs[i].files |->
                      [suite |-> fs[i].name, file |-> fs[i].files[j]]]])

\* C13: for fixed suites and filter criteria and every shardCount N >= 1, the
\* N orchestrate calls with shardIndex 0..N-1 together execute every
\* (suite, file) pair of the filtered set in exactly one call (none twice, none
\* skipped), also when a file name occurs in more than one suite or more than
\* once in a suite.
C13_AsStated ==
    (ShardedSeriesDone /\ ~HasCycle(suites, callArgs.suiteNames))
    => LET filtered == FilteredPairs(suites, callArgs.suiteNames, callArgs.calls[1])
       IN \A p \in Range(filtered) \cup UNION {Range(callRet[k]) : k \in DOMAIN callRet} :
            SumOver([k \in DOMAIN callRet |-> Occurrences(callRet[k], p)], DOMAIN callRet)
                = Occurrences(filtered, p)

----------------------------------------------------------------------------
(* Claims about filterTests (SpecFilter) *)

\* the files the returned list holds under a suite name, none when the suite
\* is not in it
ReturnedFiles(ret, name) ==
    Flatten([i \in DOMAIN ret |-> IF ret[i].name = name THEN ret[i].files ELSE <<>>])

\* the tag set of a suite, empty when the suite has no tag list
TagsOf(suite) == IF suite.tags.has THEN Range(suite.tags.v) ELSE {}

\* C14: filterTests drops a suite at the tag stage if and only if (a tags
\* criterion is given, the suite has at least one tag, and none of its tags is
\* in tags) or (some tag of the suite is in excludeTags); a suite whose tag set
\* is absent or empty is never dropped by the tag criteria.
C14_AsStated ==
    filterRet # <<>> =>
        LET opts == filterArgs.options
            kept == Range(tagStage(filterArgs.suites, opts))
        IN \A i \in DOMAIN filterArgs.suites :
             LET suite == filterArgs.suites[i]
             IN /\ suite \notin kept
                    <=> \/ /\ opts.tags.has
                           /\ TagsOf(suite) # {}
                           /\ TagsOf(suite) \cap Range(opts.tags.v) = {}
                        \/ /\ opts.excludeTags.has
                           /\ TagsOf(suite) \cap Range(opts.excludeTags.v) # {}
                /\ TagsOf(suite) = {} => suite \in kept

\* what the claim requires of a file: it matches an include pattern unless no
\* include criterion is given, and it matches no exclude pattern
IncludedNotExcluded(file, opts) ==
    /\ opts.include.has => \E pattern \in Range(opts.include.v) : matchesPattern(file, pattern)
    /\ opts.exclude.has => \A pattern \in Range(opts.exclude.v) : ~matchesPattern(file, pattern)

\* C15: within every suite that survives the tag stage, filterTests keeps a
\* file if and only if (no include criterion is given or the file matches at
\* least one include pattern) and the file matches no exclude pattern; a file
\* matching both an include and an exclude pattern is removed.
C15_FileStage ==
    filterRet # <<>> =>
        LET opts == filterArgs.options
            survivors == tagStage(filterArgs.suites, opts)
            required(file) == IncludedNotExcluded(file, opts)
        IN \A i \in DOMAIN survivors :
             ReturnedFiles(filterRet[1], survivors[i].name)
                = SelectSeq(survivors[i].files, required)

\* a1 matches the include pattern a* and the exclude pattern *1 and is removed,
\* while a2 of the same suite is kept
C15_Witness ==
    /\ filterRet # <<>>
    /\ filterArgs.options.include = Some(<<"a*">>)
    /\ filterArgs.options.exclude = Some(<<"*1">>)
    /\ \E i \in DOMAIN filterArgs.suites :
         /\ filterArgs.suites[i].files = <<"a1", "a2">>
         /\ ReturnedFiles(filterRet[1], filterArgs.suites[i].name) = <<"a2">>

\* C16: filterTests is idempotent: filterTests(filterTests(S, c), c) equals
\* filterTests(S, c) (same suites, same files, same order).
C16_Idempotent == Len(filterRet) = 2 => filterRet[2] = filterRet[1]

\* a first call that dropped a suite and a file of another, and a second call
\* on its output
C16_Witness ==
    /\ Len(filterRet) = 2
    /\ Len(filterArgs.suites) = 2
    /\ Len(filterRet[1]) = 1
    /\ Len(filterRet[1][1].files) = 1
    /\ filterArgs.options.tags.has /\ filterArgs.options.include.has

----------------------------------------------------------------------------
(* Claims about option defaults (SpecCalls) *)

\* C17: orchestrate with every option set explicitly to its stated default
\* (concurrency 4, sharding false, shardCount 4, shardIndex 0, include = [],
\* exclude = [], tags = [], excludeTags = [], continueOnError true,
\* enableCache false) dispatches exactly the same set of (suite, file) tasks as
\* orchestrate with no options; an empty include list and an empty tags list
\* filter nothing out.
C17_AsStated ==
    (/\ callArgs.calls = <<NoOptions, ExplicitDefaults>>
     /\ Len(callRet) = 2)
    => Range(callRet[1]) = Range(callRet[2])

----------------------------------------------------------------------------
(* Claims about quarantineTests (SpecQuarantine) *)

\* the failed results of the batch under a key
FailedCount(results, key) ==
    Cardinality({i \in DOMAIN results : ~results[i].passed /\ keyOf(results[i]) = key})

\* C18: for every batch of results and threshold t >= 1, after
\* quarantineTests(results, q, t) a test key suite:file:name is in q if its
\* number of failed results in the batch is >= t, and is not added by this call
\* if that number is < t; passing results never count.
C18_Threshold ==
    (quarantineDone /\ failureThresholdOf(quarantineArgs) >= 1)
    => \A key \in {keyOf(r) : r \in Range(quarantineArgs.results)}
                  \cup quarantinedTests \cup quarantineArgs.quarantine :
         LET failed == FailedCount(quarantineArgs.results, key)
         IN /\ failed >= failureThresholdOf(quarantineArgs) => key \in quarantinedTests
            /\ failed < failureThresholdOf(quarantineArgs)
                 => (key \in quarantinedTests => key \in quarantineArgs.quarantine)

\* a test failing exactly threshold = 2 times and passing once is quarantined
C18_Witness ==
    /\ quarantineDone
    /\ failureThresholdOf(quarantineArgs) = 2
    /\ quarantineArgs.quarantine = {}
    /\ \E a \in QuarantineResults :
         /\ a.passed /\ a \in Range(quarantineArgs.results)
         /\ FailedCount(quarantineArgs.results, keyOf(a)) = 2
         /\ quarantinedTests = {keyOf(a)}

----------------------------------------------------------------------------
(* Claims about the order of grants and runner starts (Spec) *)

\* the runner of task i has been invoked
Started(i) == tasks[i].st \in {"running", "fulfilled", "rejected"}

\* the runner of task i has finished
Settled(i) == tasks[i].st \in {"fulfilled", "rejected"}

\* C19: the limiter is FIFO: tasks are numbered in the order of their acquire
\* calls; of two tasks that had to wait, the one that called acquire first is
\* granted its permit, and has its runner started, before the other; a later
\* acquire never overtakes a queued waiter.
C19_FIFO ==
    \A i, j \in DOMAIN tasks :
        i < j =>
            /\ tasks[i].st = "waiting" => tasks[j].st = "waiting"
            /\ Started(j) => Started(i)

\* of two tasks that had to wait, the first runs while the second still waits
C19_Witness ==
    /\ concurrencyOf(options) = 1
    /\ Len(tasks) = 3
    /\ Settled(1)
    /\ tasks[2].st = "running"
    /\ tasks[3].st = "waiting"

\* C20: with concurrency = 1, runner invocations never overlap and start in
\* enumeration order (suites in dependency-resolved order, files in each
\* suite's list order), each starting only after the previous one finished.
C20_Sequential ==
    (concurrencyOf(options) = 1 /\ pc # "idle")
    => /\ Cardinality(Running) <= 1
       /\ \A i, j \in DOMAIN tasks : (i < j /\ Started(j)) => Settled(i)
       /\ (~shardingOf(options) /\ ~HasCycle(suites, suiteNames))
            => [i \in DOMAIN tasks |-> [suite |-> tasks[i].suite, file |-> tasks[i].file]]
                  = FilteredPairs(suites, suiteNames, options)

\* A = [a1, a2], B depending on A with [b1], B requested: a1 and a2 have
\* finished and b1 runs
C20_Witness ==
    /\ concurrencyOf(options) = 1
    /\ suiteNames = <<"B">>
    /\ [i \in DOMAIN tasks |-> tasks[i].file] = <<"a1", "a2", "b1">>
    /\ Settled(1) /\ Settled(2)
    /\ tasks[3].st = "running"

----------------------------------------------------------------------------
(* Claims about unregistered names (SpecResolve) *)

\* the requested or required names that have no registered suite
Unregistered(reg, requested) == Required(reg, requested) \ DOMAIN reg

\* C21 as stated: a requested name or dependency name that is not in the
\* registry is skipped silently by resolveDependencies: no error is raised, and
\* the unregistered name does not appear in the returned order.
C21_AsStated ==
    (/\ resolveRet.done
     /\ ~HasCycle(suites, resolveArgs)
     /\ Unregistered(suites, resolveArgs) # {})
    => /\ ~resolveRet.threw
       /\ Range(resolveRet.order) \cap Unregistered(suites, resolveArgs) = {}

\* C21 amended: no error is raised for an unregistered name, but the name does
\* appear in the order resolveDependencies returns, exactly once, before every
\* suite that lists it as a dependency; it is dropped only by the suite lookup
\* of orchestrate, which keeps the registered suites of the order, in order.
C21_UnregisteredKept ==
    (/\ resolveRet.done
     /\ ~HasCycle(suites, resolveArgs)
     /\ Unregistered(suites, resolveArgs) # {})
    => /\ ~resolveRet.threw
       /\ Range(resolveRet.order) = Required(suites, resolveArgs)
       /\ NoDuplicates(resolveRet.order)
       /\ DependenciesFirst(suites, resolveRet.order)
       /\ LET looked == lookupSuites(suites, resolveRet.order)
          IN /\ \A i \in DOMAIN looked : looked[i] = suites[looked[i].name]
             /\ {looked[i].name : i \in DOMAIN looked}
                   = Required(suites, resolveArgs) \cap DOMAIN suites

\* a registered suite depending on an unregistered name, which is emitted
\* before it
C21_Witness ==
    /\ resolveRet.done /\ ~resolveRet.threw
    /\ Len(resolveRet.order) = 2
    /\ resolveRet.order[1] \notin DOMAIN suites
    /\ resolveRet.order[2] \in DOMAIN suites
    /\ resolveRet.order[1] \in Range(dependenciesOf(suites, resolveRet.order[2]))
    /\ Len(lookupSuites(suites, resolveRet.order)) = 1

----------------------------------------------------------------------------
(* Claims about parallelLimit (SpecParallel) *)

\* the operations started and not yet settled
InFlight == {i \in DOMAIN operations : operations[i] = "pending"}

\* C22: for every limit >= 1 and every interleaving of operation completions,
\* parallelLimit never has more than limit operations started and not yet
\* settled.
C22_AtMostLimit == plArgs.limit >= 1 => Cardinality(InFlight) <= plArgs.limit

\* limit operations in flight while an item is still to be started
C22_Witness ==
    /\ plArgs.limit = 2 /\ plArgs.items = 3
    /\ Cardinality(InFlight) = 2
    /\ Len(operations) = 2
    /\ plPc = "race"

\* C30: for every limit >= 1 and every interleaving of operation settlements,
\* if parallelLimit resolves then the returned array holds exactly one result
\* per input item; whenever any operation rejects, parallelLimit rejects and
\* never resolves with that item's result missing.
C30_AsStated ==
    (plArgs.limit >= 1 /\ plPc = "resolved")
    => /\ Len(plResults) = plArgs.items
       /\ \A item \in 1..plArgs.items : Occurrences(plResults, item) = 1
       /\ \A item \in DOMAIN operations : operations[item] # "rejected"

----------------------------------------------------------------------------
(* Claims about permits and the return of orchestrate (Spec) *)

\* the tasks holding a permit: granted, and not yet through their finally block
Holders == {i \in DOMAIN tasks : tasks[i].st \in {"acquired", "running"}}

\* C23: every dispatched task releases its permit exactly once, whether its
\* runner returns or throws: while tasks run, each settled task has given back
\* exactly the permit it held, and after all tasks of a call have finished the
\* number of free permits equals the configured concurrency K and the wait
\* queue is empty.
C23_PermitsReturned ==
    (pc # "idle" /\ ~HasCycle(suites, suiteNames))
    => /\ permits + Cardinality(Holders) = concurrencyOf(options)
       /\ AllSettled => (permits = concurrencyOf(options) /\ waiting = <<>>)

\* three tasks through one permit, one of them thrown, all finished
C23_Witness ==
    /\ concurrencyOf(options) = 1
    /\ Len(tasks) = 3
    /\ AllSettled
    /\ tasks[2].st = "rejected" /\ tasks[3].st = "fulfilled"
    /\ permits = 1 /\ waiting = <<>>

\* C24: orchestrate returns only after every runner invocation it started has
\* finished: when the result is returned no runner invocation is in flight and
\* no dispatched task is still to run, for both values of continueOnError and
\* whether or not some invocation failed.
C24_ReturnsAfterAll ==
    pc = "returned" => \A i \in DOMAIN tasks : Settled(i)

\* returned under continueOnError = false after a runner threw and a later one
\* still ran to its end
C24_Witness ==
    /\ pc = "returned"
    /\ ~continueOnErrorOf(options)
    /\ Len(tasks) = 3
    /\ tasks[1].st = "rejected"
    /\ tasks[3].st = "fulfilled"

C26_SemaphoreInvariant ==
    (pc # "idle" /\ ~HasCycle(suites, suiteNames) /\ concurrencyOf(options) >= 1)
    => /\ permits >= 0
       /\ permits + Cardinality(Holders) = concurrencyOf(options)
       /\ waiting # <<>> => permits = 0
       /\ Range(waiting) = {i \in DOMAIN tasks : tasks[i].st = "waiting"}

\* a release has just handed its permit to the oldest waiter while another
\* task still waits
C26_Witness ==
    /\ concurrencyOf(options) = 1
    /\ Len(tasks) = 3
    /\ Settled(1)
    /\ tasks[2].st = "acquired"
    /\ waiting = <<3>>
    /\ permits = 0

----------------------------------------------------------------------------
(* Progress of the dispatched tasks (SpecFair) *)

\* C27: for concurrency K >= 1, if every runner invocation eventually returns
\* or throws, then every task enumerated by orchestrate eventually acquires a
\* permit and has its runner invoked: no dispatched task waits forever, also
\* when earlier tasks throw.
C27_EveryTaskRuns ==
    \A task \in TaskIds :
        (concurrencyOf(options) >= 1 /\ task \in DOMAIN tasks)
            ~> (task \in DOMAIN tasks /\ Started(task))

\* a task that had to wait runs after the task before it threw
C27_Witness ==
    /\ concurrencyOf(options) = 1
    /\ Len(tasks) = 3
    /\ tasks[1].st = "rejected" /\ tasks[2].st = "rejected"
    /\ Started(3)

----------------------------------------------------------------------------
(* Claims about the returned result (Spec) *)

\* C28: in every result returned by orchestrate (including calls that ended
\* by cycle error or by the continueOnError = false abort), summary.total
\* equals the number of entries in result.results and summary.passed +
\* summary.failed equals summary.total.
C28_AsStated ==
    pc = "returned"
    => /\ result.summary.total = Len(result.results)
       /\ result.summary.passed + result.summary.failed = result.summary.total

\* the TestResults of the tasks whose runner returned, in dispatch order
ResultsInDispatchOrder ==
    LET returned(task) == task.st = "fulfilled"
        done == SelectSeq(tasks, returned)
    IN [k \in DOMAIN done |-> done[k].value[1]]

\* C29: result.results lists the TestResults in dispatch (enumeration) order,
\* suites in resolved order and files in suite order, regardless of the order
\* in which the runner invocations completed.
C29_DispatchOrder ==
    pc = "returned" => result.results = ResultsInDispatchOrder

\* C29 witness: a returned call whose second task settled before its first,
\* both with a TestResult
C29_Witness ==
    /\ pc = "returned"
    /\ Len(tasks) >= 2
    /\ tasks[1].st = "fulfilled" /\ tasks[2].st = "fulfilled"
    /\ tasks[2].settledAt < tasks[1].settledAt
    /\ Len(result.results) >= 2

====
